---------------------------- MODULE Spec2Model ----------------------------
(***************************************************************************)
(* Model of kernel/memory.c: the two physical pools and their bitmaps, the *)
(* kernel and user virtual bitmaps, the page tables (PDE / PTE present bit *)
(* and frame), the arena / mem_block heap on top of them, and the pool     *)
(* mutexes, driven by kernel threads and one user process that call the    *)
(* public entry points.                                                    *)
(*                                                                         *)
(* Virtual pages are named by their bit index in the domain's virtual      *)
(* bitmap (page idx of domain pf is the address vaddr_start + idx*PG_SIZE);*)
(* a pointer is the pair [page, off] of that index and the byte offset in  *)
(* the page.  Physical frames are named by their physical byte address.    *)
(* The contents of a page are modelled as far as memory.c reads them: the  *)
(* struct arena at the base of the page and the free-list links.           *)
(***************************************************************************)
EXTENDS Integers, Sequences, FiniteSets, TLC

\* ------------------------------------------------------------------ bounds
KernelFrames == 2
UserFrames == 1
UserVPages == 2
MaxPgCnt == 2
MaxCalls == 4
MaxReq == 1100
MaxLive == 2
MaxWaits == 3
MaxBootFrames == 64
MaxFreeCalls == 3

\* ------------------------------------------------- constants of memory.c
PG_SIZE == 4096
DESC_CNT == 7
SIZEOF_ARENA == 12
SLAB_MAX == 1024
PT_ENTRIES == 1024
K_HEAP_START_VPN == 786688
LOW_MEM == 1048576
PF_KERNEL == "PF_KERNEL"
PF_USER == "PF_USER"
Domains == {PF_KERNEL, PF_USER}

\* used_mem: the low 1 MiB plus the 256 pages of boot-time page tables
used_mem == PG_SIZE * 256 + LOW_MEM

\* pool.phy_addr_start and pool.pool_size of the pools the runs work in:
\* KernelFrames frames from used_mem on, then UserFrames frames
phy_addr_start(pf) ==
    IF pf = PF_KERNEL THEN used_mem ELSE used_mem + KernelFrames * PG_SIZE

NFrames(pf) == IF pf = PF_KERNEL THEN KernelFrames ELSE UserFrames

pool_size(pf) == NFrames(pf) * PG_SIZE

\* the number of bits of the domain's virtual bitmap: the kernel's has the
\* length of the kernel physical bitmap, the user's is set by the process
NVPages(pf) == IF pf = PF_KERNEL THEN KernelFrames ELSE UserVPages

\* first virtual page number of the user process's heap: one page below a
\* 4 MiB boundary, so that its pages lie under two page directory entries
USER_VPN_START == 33 * PT_ENTRIES - 1

vaddr_start_vpn(pf) == IF pf = PF_KERNEL THEN K_HEAP_START_VPN ELSE USER_VPN_START

\* PDE_IDX of the page idx of domain pf
PDE_IDX(pf, idx) == (vaddr_start_vpn(pf) + idx) \div PT_ENTRIES

UserPDEs == {PDE_IDX(PF_USER, i) : i \in 0..(UserVPages - 1)}

\* ---------------------------------------------------------------- threads
KThreads == {"k1", "k2"}
UProcs == {"u1"}
Threads == KThreads \cup UProcs

\* one kernel thread and one user process: the callers of most runs
MainThreads == {"k1"} \cup UProcs
NOBODY == "nobody"

\* cur->pgdir != NULL
has_pgdir(t) == t \in UProcs

NULL == [page |-> -1, off |-> 0]
Ptr(page, off) == [page |-> page, off |-> off]

NoPTE == [p |-> FALSE, frame |-> 0]
NoArena == [desc |-> -1, large |-> FALSE, cnt |-> 0]
NoLoc == [base |-> 0, n |-> 0, i |-> 0, frame |-> 0, scan |-> -1]
NoCall == [op |-> "none", pf |-> PF_KERNEL, page |-> 0, n |-> 0, size |-> 0, ptr |-> NULL]

Min(S) == CHOOSE x \in S : \A y \in S : x <= y


\* ------------------------------------------------- bitmap and list primitives
\* bitmap_scan: the lowest index of a run of cnt clear bits, -1 when none
bitmap_scan(btmp, cnt) ==
    LET n == Cardinality(DOMAIN btmp)
        starts == {i \in 0..(n - cnt) : \A j \in 0..(cnt - 1) : btmp[i + j] = 0}
    IN IF starts = {} THEN -1 ELSE Min(starts)

bitmap_set(btmp, idx, value) == [btmp EXCEPT ![idx] = value]

RECURSIVE bitmap_set_run(_, _, _, _)
bitmap_set_run(btmp, idx, cnt, value) ==
    IF cnt = 0 THEN btmp
    ELSE bitmap_set_run(bitmap_set(btmp, idx, value), idx + 1, cnt - 1, value)

list_empty(l) == l = <<>>
list_append(l, e) == Append(l, e)
elem_find(l, e) == \E k \in 1..Len(l) : l[k] = e
list_remove(l, e) == SelectSeq(l, LAMBDA x : x # e)

\* ------------------------------------------------------ block descriptors
RECURSIVE Pow2(_)
Pow2(k) == IF k = 0 THEN 1 ELSE 2 * Pow2(k - 1)

\* block_desc_init: block_size 16 doubling, blocks_per_arena of one page
block_size(d) == 16 * Pow2(d)
blocks_per_arena(d) == (PG_SIZE - SIZEOF_ARENA) \div block_size(d)

\* arena2block without the struct arena in front of the blocks
arena2block_no_header(a, d, idx) == Ptr(a, idx * block_size(d))

arena2block(a, d, idx) == Ptr(a, SIZEOF_ARENA + idx * block_size(d))
block2arena(b) == b.page

DIV_ROUND_UP(x, step) == (x + step - 1) \div step

\* ------------------------------------------------------------ memory state
\* The operations below are functions of a record m of the memory manager's
\* state: m.pool[pf] (pool_bitmap, lock), m.vaddr[pf] (virtual bitmap),
\* m.pde, m.pte[pf], m.arena[pf] (struct arena at the base of each page) and
\* m.free_list[pf][d] (the descriptor's free_list of domain pf).
pool_of_frame(frame) ==
    IF frame >= phy_addr_start(PF_USER) THEN PF_USER ELSE PF_KERNEL

\* palloc after its bitmap_scan returned bit_idx
palloc_set(m, pf, bit_idx) ==
    IF bit_idx = -1 THEN [m |-> m, frame |-> 0]
    ELSE [m |-> [m EXCEPT !.pool[pf].pool_bitmap =
                     bitmap_set(m.pool[pf].pool_bitmap, bit_idx, 1)],
          frame |-> bit_idx * PG_SIZE + phy_addr_start(pf)]

palloc(m, pf) == palloc_set(m, pf, bitmap_scan(m.pool[pf].pool_bitmap, 1))

vaddr_get(m, pf, pg_cnt) ==
    LET bit_idx_start == bitmap_scan(m.vaddr[pf], pg_cnt)
    IN IF bit_idx_start = -1 THEN [m |-> m, page |-> -1]
       ELSE [m |-> [m EXCEPT !.vaddr[pf] =
                        bitmap_set_run(m.vaddr[pf], bit_idx_start, pg_cnt, 1)],
             page |-> bit_idx_start]

\* *pde & 1: the 255 kernel page tables exist since boot
pde_present(m, pf, idx) == pf = PF_KERNEL \/ m.pde[PDE_IDX(pf, idx)].p

\* page_table_add with the page table present: the PTE must not be present
pte_install(m, pf, idx, frame) ==
    IF m.pte[pf][idx].p THEN [m |-> m, st |-> "halt"]
    ELSE [m |-> [m EXCEPT !.pte[pf][idx] = [p |-> TRUE, frame |-> frame]],
          st |-> "ok"]

\* page_table_add with the page table missing, after palloc(&kernel_pool)
\* scanned bit scan: the PDE takes the frame (0 when palloc returned NULL),
\* the new table is zeroed and the PTE written
pt_install(m, pf, idx, frame, scan) ==
    LET r == palloc_set(m, PF_KERNEL, scan)
        zeroed == [q \in DOMAIN r.m.pte[pf] |->
                      IF PDE_IDX(pf, q) = PDE_IDX(pf, idx) THEN NoPTE
                      ELSE r.m.pte[pf][q]]
    IN [r.m EXCEPT !.pde[PDE_IDX(pf, idx)] = [p |-> TRUE, frame |-> r.frame],
                   !.pte[pf] = [zeroed EXCEPT ![idx] = [p |-> TRUE, frame |-> frame]]]

Job(m, st, base, n, i, frame, scan) ==
    [m |-> m, st |-> st, base |-> base, n |-> n, i |-> i, frame |-> frame, scan |-> scan]

\* The loop of malloc_page over the pages base .. base+n-1 from page i on:
\* palloc, then page_table_add.  It stops with st = "ok" after the last page,
\* "fail" when palloc returns NULL, "halt" on a fatal assertion, and "pause"
\* inside page_table_add between the bitmap_scan and the bitmap_set of its
\* palloc(&kernel_pool), which runs without the kernel pool's lock.
RECURSIVE map_loop(_, _, _, _, _)
map_loop(m, pf, base, n, i) ==
    IF i = n THEN Job(m, "ok", base, n, i, 0, -1)
    ELSE LET r == palloc(m, pf)
         IN IF r.frame = 0 THEN Job(r.m, "fail", base, n, i, 0, -1)
            ELSE IF pde_present(r.m, pf, base + i)
                 THEN LET a == pte_install(r.m, pf, base + i, r.frame)
                      IN IF a.st = "halt" THEN Job(a.m, "halt", base, n, i, r.frame, -1)
                         ELSE map_loop(a.m, pf, base, n, i + 1)
                 ELSE Job(r.m, "pause", base, n, i, r.frame,
                          bitmap_scan(r.m.pool[PF_KERNEL].pool_bitmap, 1))

\* the rest of page_table_add after the pause, and the loop from the next page
map_resume(m, pf, l) ==
    map_loop(pt_install(m, pf, l.base + l.i, l.frame, l.scan), pf, l.base, l.n, l.i + 1)

\* a malloc_page that gives back what it took when palloc returns NULL
malloc_page_rollback(m, pf, pg_cnt) ==
    IF ~(pg_cnt > 0 /\ pg_cnt < 3840) THEN Job(m, "halt", 0, pg_cnt, 0, 0, -1)
    ELSE LET v == vaddr_get(m, pf, pg_cnt)
         IN IF v.page = -1 THEN Job(m, "vfail", 0, pg_cnt, 0, 0, -1)
            ELSE LET j == map_loop(v.m, pf, v.page, pg_cnt, 0)
                 IN IF j.st = "fail" THEN [j EXCEPT !.m = m] ELSE j

malloc_page(m, pf, pg_cnt) ==
    IF ~(pg_cnt > 0 /\ pg_cnt < 3840) THEN Job(m, "halt", 0, pg_cnt, 0, 0, -1)
    ELSE LET v == vaddr_get(m, pf, pg_cnt)
         IN IF v.page = -1 THEN Job(m, "vfail", 0, pg_cnt, 0, 0, -1)
            ELSE map_loop(v.m, pf, v.page, pg_cnt, 0)

\* addr_v2p of a page: the frame field of its PTE, present or not
addr_v2p(m, pf, idx) == m.pte[pf][idx].frame

\* pfree leaving the frame allocated
pfree_keep(m, pg_phy_addr) == m

pfree(m, pg_phy_addr) ==
    LET mem_pool == pool_of_frame(pg_phy_addr)
        bit_idx == (pg_phy_addr - phy_addr_start(mem_pool)) \div PG_SIZE
    IN [m EXCEPT !.pool[mem_pool].pool_bitmap =
            bitmap_set(m.pool[mem_pool].pool_bitmap, bit_idx, 0)]

\* page_table_pte_remove leaving the P bit set
page_table_pte_remove_keep(m, pf, idx) == m

page_table_pte_remove(m, pf, idx) == [m EXCEPT !.pte[pf][idx].p = FALSE]

\* vaddr_remove leaving the bits set
vaddr_remove_keep(m, pf, idx, pg_cnt) == m

vaddr_remove(m, pf, idx, pg_cnt) ==
    [m EXCEPT !.vaddr[pf] = bitmap_set_run(m.vaddr[pf], idx, pg_cnt, 0)]

\* the assertion of mfree_page's loop on each frame, by the branch taken
frame_in_branch(user_branch, frame) ==
    /\ frame % PG_SIZE = 0
    /\ IF user_branch THEN frame >= phy_addr_start(PF_USER)
       ELSE frame >= phy_addr_start(PF_KERNEL) /\ frame < phy_addr_start(PF_USER)

\* the loop of mfree_page: pfree and page_table_pte_remove page by page
RECURSIVE mfree_loop(_, _, _, _, _)
mfree_loop(m, pf, idx, cnt, user_branch) ==
    IF cnt = 0 THEN [m |-> m, st |-> "ok"]
    ELSE LET pg_phy_addr == addr_v2p(m, pf, idx)
         IN IF ~frame_in_branch(user_branch, pg_phy_addr) THEN [m |-> m, st |-> "halt"]
            ELSE mfree_loop(page_table_pte_remove(pfree(m, pg_phy_addr), pf, idx),
                            pf, idx + 1, cnt - 1, user_branch)

\* mfree_page(pf, base, pg_cnt).  The contents of the unmapped pages leave the
\* state: their struct arena reads as zeroed memory again.
mfree_page(m, pf, base, pg_cnt) ==
    LET first == addr_v2p(m, pf, base)
    IN IF ~(pg_cnt >= 1 /\ first % PG_SIZE = 0 /\ first >= 1056768)
       THEN [m |-> m, st |-> "halt"]
       ELSE LET r == mfree_loop(m, pf, base, pg_cnt, first >= phy_addr_start(PF_USER))
            IN IF r.st = "halt" THEN r
               ELSE [m |-> [vaddr_remove(r.m, pf, base, pg_cnt) EXCEPT !.arena[pf] =
                               [q \in DOMAIN r.m.arena[pf] |->
                                   IF q >= base /\ q < base + pg_cnt THEN NoArena
                                   ELSE r.m.arena[pf][q]]],
                     st |-> "ok"]

\* ------------------------------------------------------------------- heap
\* sys_malloc's descriptor loop: the first desc_idx with size <= block_size
desc_of(size) ==
    Min({d \in 0..(DESC_CNT - 1) : size <= block_size(d)} \cup {DESC_CNT})

\* sys_malloc's range check, made before the lock is taken
in_range(size, pool_sz) == size > 0 /\ size < pool_sz

size_in_range(pf, size) == in_range(size, pool_size(pf))

\* the large-path test with the bound 1024 itself taken as large
is_large_from_1024(size) == size >= SLAB_MAX

is_large(size) == size > SLAB_MAX

\* the page count of a large request without room for the header
page_cnt_no_header(size) == DIV_ROUND_UP(size, PG_SIZE)

page_cnt_of(size) == DIV_ROUND_UP(size + SIZEOF_ARENA, PG_SIZE)

\* sys_malloc from lock_acquire to the end of its malloc_page, if it has one
sys_malloc_start(m, pf, size) ==
    IF is_large(size) THEN malloc_page(m, pf, page_cnt_of(size))
    ELSE IF list_empty(m.free_list[pf][desc_of(size)]) THEN malloc_page(m, pf, 1)
    ELSE Job(m, "nomap", 0, 0, 0, 0, -1)

\* a new arena whose last block is not put on the free_list
arena_blocks_short(a, d, cnt) == [i \in 1..(cnt - 1) |-> arena2block(a, d, i - 1)]

\* the blocks of a new arena a of descriptor d, in the order they are appended
arena_blocks(a, d, cnt) == [i \in 1..cnt |-> arena2block(a, d, i - 1)]

\* a slab_alloc that returns the first free block and leaves it on the list
slab_alloc_no_pop(m, pf, d, new_arena) ==
    LET m1 == IF new_arena = -1 THEN m
              ELSE [m EXCEPT !.arena[pf][new_arena] =
                                 [desc |-> d, large |-> FALSE, cnt |-> blocks_per_arena(d)],
                             !.free_list[pf][d] =
                                 m.free_list[pf][d] \o arena_blocks(new_arena, d, blocks_per_arena(d))]
        b == Head(m1.free_list[pf][d])
        a == block2arena(b)
    IN [m |-> [m1 EXCEPT !.arena[pf][a].cnt = m1.arena[pf][a].cnt - 1],
        ret |-> b]

\* the slab path from the free_list test on; new_arena is the page malloc_page
\* returned, -1 when the free_list was not empty
slab_alloc(m, pf, d, new_arena) ==
    LET m1 == IF new_arena = -1 THEN m
              ELSE [m EXCEPT !.arena[pf][new_arena] =
                                 [desc |-> d, large |-> FALSE, cnt |-> blocks_per_arena(d)],
                             !.free_list[pf][d] =
                                 m.free_list[pf][d] \o arena_blocks(new_arena, d, blocks_per_arena(d))]
        b == Head(m1.free_list[pf][d])
        a == block2arena(b)
    IN [m |-> [m1 EXCEPT !.free_list[pf][d] = Tail(m1.free_list[pf][d]),
                         !.arena[pf][a].cnt = m1.arena[pf][a].cnt - 1],
        ret |-> b]

\* sys_malloc after its malloc_page ended with job j (the lock still held)
sys_malloc_finish(m, pf, size, j) ==
    IF j.st \in {"fail", "vfail"} THEN [m |-> m, ret |-> NULL]
    ELSE IF is_large(size)
    THEN [m |-> [m EXCEPT !.arena[pf][j.base] =
                     [desc |-> -1, large |-> TRUE, cnt |-> page_cnt_of(size)]],
          ret |-> Ptr(j.base, SIZEOF_ARENA)]
    ELSE slab_alloc(m, pf, desc_of(size), IF j.st = "nomap" THEN -1 ELSE j.base)

\* sys_free's loop over the blocks of a fully free arena: each must be on the
\* free_list, and is unlinked
unlink_blocks(l, a, d, cnt) ==
    LET blocks == {arena2block(a, d, i) : i \in 0..(cnt - 1)}
    IN IF \A b \in blocks : elem_find(l, b)
       THEN [l |-> SelectSeq(l, LAMBDA b : b \notin blocks), st |-> "ok"]
       ELSE [l |-> l, st |-> "halt"]

\* sys_free between lock_acquire and lock_release
sys_free_body(m, pf, ptr) ==
    LET a == block2arena(ptr)
        hdr == m.arena[pf][a]
    IN IF hdr.desc = -1 /\ hdr.large THEN mfree_page(m, pf, a, hdr.cnt)
       ELSE LET d == hdr.desc
                l1 == list_append(m.free_list[pf][d], ptr)
                m1 == [m EXCEPT !.free_list[pf][d] = l1,
                                !.arena[pf][a].cnt = hdr.cnt + 1]
            IN IF hdr.cnt + 1 = blocks_per_arena(d)
               THEN LET u == unlink_blocks(l1, a, d, blocks_per_arena(d))
                    IN IF u.st = "halt" THEN [m |-> m1, st |-> "halt"]
                       ELSE mfree_page([m1 EXCEPT !.free_list[pf][d] = u.l], pf, a, 1)
               ELSE [m |-> m1, st |-> "ok"]

\* ------------------------------------------------------------ entry points
\* the mutex of sync.h: one holder at a time
lock_free(m, pf) == m.pool[pf].lock = NOBODY
lock_acquire(m, pf, t) == [m EXCEPT !.pool[pf].lock = t]
lock_release(m, pf) == [m EXCEPT !.pool[pf].lock = NOBODY]

\* the domain sys_malloc and sys_free derive from running_thread()->pgdir
domain_of(t) == IF has_pgdir(t) THEN PF_USER ELSE PF_KERNEL

\* the pool whose lock the call takes, and whose pages it maps
call_pf(t, c) ==
    CASE c.op = "get_kernel_pages" -> PF_KERNEL
      [] c.op = "get_user_pages" -> PF_USER
      [] c.op \in {"sys_malloc", "sys_free"} -> domain_of(t)
      [] OTHER -> c.pf

\* get_a_page from after lock_acquire: the domain test, the bit of the page,
\* then palloc and page_table_add
get_a_page_start(m, t, pf, page) ==
    IF (has_pgdir(t) /\ pf = PF_USER) \/ (~has_pgdir(t) /\ pf = PF_KERNEL)
    THEN IF ~(page > 0) THEN Job(m, "halt", page, 1, 0, 0, -1)
         ELSE map_loop([m EXCEPT !.vaddr[pf] = bitmap_set(m.vaddr[pf], page, 1)],
                       pf, page, 1, 0)
    ELSE Job(m, "halt", page, 1, 0, 0, -1)

\* an entry point from after its lock_acquire up to the end of its mapping
entry_start(m, t, c) ==
    CASE c.op = "get_kernel_pages" -> malloc_page(m, PF_KERNEL, c.n)
      [] c.op = "get_user_pages" -> malloc_page(m, PF_USER, c.n)
      [] c.op = "get_a_page" -> get_a_page_start(m, t, c.pf, c.page)
      [] c.op = "get_a_page_without_opvaddrbitmap" -> map_loop(m, c.pf, c.page, 1, 0)
      [] c.op = "sys_malloc" -> sys_malloc_start(m, domain_of(t), c.size)
      [] OTHER -> Job(m, "nomap", 0, 0, 0, 0, -1)

JobPages(j) == j.base..(j.base + j.n - 1)

Done(m, ret, st, got, lost, back) ==
    [m |-> m, ret |-> ret, st |-> st, got |-> got, lost |-> lost, back |-> back]

\* get_kernel_pages / get_user_pages after malloc_page
get_pages_finish(m, pf, j) ==
    IF j.st = "ok" THEN Done(lock_release(m, pf), Ptr(j.base, 0), "ret", JobPages(j), {}, {})
    ELSE Done(lock_release(m, pf), NULL, "ret", {},
              IF j.st = "fail" THEN JobPages(j) ELSE {}, {})

\* get_a_page after palloc: the NULL return leaves without lock_release
get_a_page_finish(m, pf, j) ==
    IF j.st = "ok" THEN Done(lock_release(m, pf), Ptr(j.base, 0), "ret", JobPages(j), {}, {})
    ELSE Done(m, NULL, "ret", {}, JobPages(j), {})

get_a_page_without_finish(m, pf, j) ==
    IF j.st = "ok" THEN Done(lock_release(m, pf), Ptr(j.base, 0), "ret", JobPages(j), {}, {})
    ELSE Done(lock_release(m, pf), NULL, "ret", {}, {}, {})

sys_malloc_end(m, pf, size, j) ==
    LET r == sys_malloc_finish(m, pf, size, j)
    IN Done(lock_release(r.m, pf), r.ret, "ret", {},
            IF j.st = "fail" THEN JobPages(j) ELSE {}, {})

sys_free(m, pf, ptr) ==
    LET r == sys_free_body(m, pf, ptr)
    IN IF r.st = "halt" THEN Done(r.m, NULL, "halt", {}, {}, {})
       ELSE Done(lock_release(r.m, pf), NULL, "ret", {}, {}, {})

mfree_page_call(m, pf, base, n) ==
    LET r == mfree_page(m, pf, base, n)
    IN Done(r.m, NULL, IF r.st = "halt" THEN "halt" ELSE "ret", {}, {}, base..(base + n - 1))

\* an entry point from the end of its mapping to its return
entry_finish(m, t, c, j) ==
    CASE c.op \in {"get_kernel_pages", "get_user_pages"} -> get_pages_finish(m, call_pf(t, c), j)
      [] c.op = "get_a_page" -> get_a_page_finish(m, c.pf, j)
      [] c.op = "get_a_page_without_opvaddrbitmap" -> get_a_page_without_finish(m, c.pf, j)
      [] c.op = "sys_malloc" -> sys_malloc_end(m, domain_of(t), c.size, j)
      [] c.op = "sys_free" -> sys_free(m, domain_of(t), c.ptr)
      [] OTHER -> mfree_page_call(m, c.pf, c.page, c.n)

\* a call run without interruption: every pause resumed at once
RECURSIVE run_job(_, _)
run_job(j, pf) == IF j.st = "pause" THEN run_job(map_resume(j.m, pf, j), pf) ELSE j

takes_lock(c) == c.op # "mfree_page"

\* the whole call c of thread t from state m, uninterrupted
run_call(m, t, c) ==
    LET pf == call_pf(t, c)
        m0 == IF takes_lock(c) THEN lock_acquire(m, pf, t) ELSE m
        j == run_job(entry_start(m0, t, c), pf)
    IN IF c.op = "sys_malloc" /\ ~size_in_range(pf, c.size)
       THEN Done(m, NULL, "ret", {}, {}, {})
       ELSE IF j.st = "halt" THEN Done(j.m, NULL, "halt", {}, {}, {})
       ELSE entry_finish(j.m, t, c, j)

\* --------------------------------------------------------------- mem_init
UINT16 == Pow2(16)

\* the RAM size of spec scenario S1
RAM_32M == 32 * LOW_MEM

\* what mem_pool_init leaves for the RAM size all_mem: the two pools and the
\* kernel virtual pool.  The page counts are uint16_t.  bits is the offset of
\* the bitmap from MEM_BITMAP_BASE, btmp_bytes_len its length in bytes.
mem_pool_init(all_mem) ==
    LET free_mem == all_mem - used_mem
        all_free_pages == (free_mem \div PG_SIZE) % UINT16
        kernel_free_pages == all_free_pages \div 2
        user_free_pages == (all_free_pages - kernel_free_pages) % UINT16
        kbm_length == kernel_free_pages \div 8
        ubm_length == user_free_pages \div 8
        kp_start == used_mem
        up_start == kp_start + kernel_free_pages * PG_SIZE
    IN [kernel_pool |-> [phy_addr_start |-> kp_start,
                         pool_size |-> kernel_free_pages * PG_SIZE,
                         btmp_bytes_len |-> kbm_length,
                         bits |-> 0],
        user_pool |-> [phy_addr_start |-> up_start,
                       pool_size |-> user_free_pages * PG_SIZE,
                       btmp_bytes_len |-> ubm_length,
                       bits |-> kbm_length],
        kernel_vaddr |-> [btmp_bytes_len |-> kbm_length,
                          bits |-> kbm_length + ubm_length,
                          vaddr_start_vpn |-> K_HEAP_START_VPN]]

\* ------------------------------------------------------------------ state
VARIABLES
    pool,       \* pool[pf]: pool_bitmap and lock of kernel_pool / user_pool
    vaddr,      \* vaddr[pf]: vaddr_bitmap of kernel_vaddr / cur->userprog_vaddr
    pde,        \* the user process's page directory entries of its heap range
    pte,        \* pte[pf][idx]: the PTE of page idx of the domain
    arena,      \* arena[pf][idx]: the struct arena at the base of the page
    free_list,  \* free_list[pf][d]: k_block_descs[d] / u_block_desc[d] free_list
    pc,         \* "idle", or "ptalloc" inside page_table_add's palloc
    call,       \* the call a thread is inside
    loc,        \* its locals: the pages being mapped, the frame, the scanned bit
    held,       \* pages the page-level allocators returned, not yet freed
    forked,     \* those of them get_a_page_without_opvaddrbitmap mapped
    leak,       \* pages reserved by a call that then returned NULL
    active,     \* the threads that make calls in this run
    sizes,      \* sizes[pf]: the request sizes sys_malloc is called with
    ncalls,     \* the number of calls made so far
    boot,       \* the RAM size the loader reports and what mem_pool_init made of it
    live        \* the blocks sys_malloc returned that sys_free was not given yet

vars == <<pool, vaddr, pde, pte, arena, free_list, pc, call, loc, held, forked, leak,
          active, sizes, ncalls, boot, live>>

\* an ASSERT or PANIC fired: the kernel has stopped
halted == \E t \in Threads : pc[t] = "halt"

\* no thread is inside a call
quiet == \A t \in Threads : pc[t] = "idle"

Mem == [pool |-> pool, vaddr |-> vaddr, pde |-> pde, pte |-> pte,
        arena |-> arena, free_list |-> free_list]

SetMem(m) ==
    /\ pool' = m.pool
    /\ vaddr' = m.vaddr
    /\ pde' = m.pde
    /\ pte' = m.pte
    /\ arena' = m.arena
    /\ free_list' = m.free_list

kernel_pool == pool[PF_KERNEL]
user_pool == pool[PF_USER]
kernel_vaddr == vaddr[PF_KERNEL]
userprog_vaddr == vaddr[PF_USER]

\* mem_pool_init and block_desc_init: every bitmap clear, the locks free, the
\* free lists empty; no user page table exists yet
FreshMem ==
    [pool |-> [pf \in Domains |->
                 [pool_bitmap |-> [i \in 0..(NFrames(pf) - 1) |-> 0], lock |-> NOBODY]],
     vaddr |-> [pf \in Domains |-> [i \in 0..(NVPages(pf) - 1) |-> 0]],
     pde |-> [x \in UserPDEs |-> NoPTE],
     pte |-> [pf \in Domains |-> [i \in 0..(NVPages(pf) - 1) |-> NoPTE]],
     arena |-> [pf \in Domains |-> [i \in 0..(NVPages(pf) - 1) |-> NoArena]],
     free_list |-> [pf \in Domains |-> [d \in 0..(DESC_CNT - 1) |-> <<>>]]]

IsMem(m) ==
    /\ pool = m.pool
    /\ vaddr = m.vaddr
    /\ pde = m.pde
    /\ pte = m.pte
    /\ arena = m.arena
    /\ free_list = m.free_list

InitMem == IsMem(FreshMem)

\* the request sizes the threads draw from
Sizes(pf) == {0, SLAB_MAX, SLAB_MAX + 1, PG_SIZE - SIZEOF_ARENA + 1,
              pool_size(pf) - 1, pool_size(pf)}

InitIdle ==
    /\ pc = [t \in Threads |-> "idle"]
    /\ call = [t \in Threads |-> NoCall]
    /\ loc = [t \in Threads |-> NoLoc]
    /\ forked = [pf \in Domains |-> {}]
    /\ leak = [pf \in Domains |-> {}]
    /\ ncalls = 0
    /\ live = {}

\* no thread is inside a call and mem_init has run on a machine of 32 MiB
InitThreads ==
    /\ InitIdle
    /\ boot = [all_mem |-> RAM_32M, st |-> "done", r |-> mem_pool_init(RAM_32M)]

Init ==
    /\ InitMem
    /\ InitThreads
    /\ held = [pf \in Domains |-> {}]
    /\ active = MainThreads
    /\ sizes = [pf \in Domains |-> Sizes(pf)]

\* the pointers sys_malloc returned in domain pf that were not freed since
arena_of_large(m, pf) == {a \in DOMAIN m.arena[pf] : m.arena[pf][a].large}
arena_of_slab(m, pf) == {a \in DOMAIN m.arena[pf] : m.arena[pf][a].desc # -1}

list_elems(l) == {l[i] : i \in DOMAIN l}

LivePtrs(m, pf) ==
    {Ptr(a, SIZEOF_ARENA) : a \in arena_of_large(m, pf)}
    \cup UNION {{arena2block(a, m.arena[pf][a].desc, i) :
                     i \in 0..(blocks_per_arena(m.arena[pf][a].desc) - 1)}
                 \ list_elems(m.free_list[pf][m.arena[pf][a].desc]) :
                a \in arena_of_slab(m, pf)}

\* the step of thread t that ends in job j of call c
Apply(t, c, j) ==
    IF j.st = "pause"
    THEN /\ SetMem(j.m)
         /\ pc' = [pc EXCEPT ![t] = "ptalloc"]
         /\ call' = [call EXCEPT ![t] = c]
         /\ loc' = [loc EXCEPT ![t] = [base |-> j.base, n |-> j.n, i |-> j.i,
                                        frame |-> j.frame, scan |-> j.scan]]
         /\ UNCHANGED <<held, forked, leak>>
    ELSE LET f == IF j.st = "halt" THEN Done(j.m, NULL, "halt", {}, {}, {})
                  ELSE entry_finish(j.m, t, c, j)
             pf == call_pf(t, c)
         IN /\ SetMem(f.m)
            /\ pc' = [pc EXCEPT ![t] = IF f.st = "halt" THEN "halt" ELSE "idle"]
            /\ call' = [call EXCEPT ![t] = NoCall]
            /\ loc' = [loc EXCEPT ![t] = NoLoc]
            /\ held' = [held EXCEPT ![pf] = (held[pf] \cup f.got) \ f.back]
            /\ forked' = [forked EXCEPT ![pf] =
                              IF c.op = "get_a_page_without_opvaddrbitmap"
                              THEN forked[pf] \cup f.got ELSE forked[pf] \ f.back]
            /\ leak' = [leak EXCEPT ![pf] = (leak[pf] \cup f.lost) \ f.got]

\* thread t calls c: lock_acquire (the thread waits while the lock is held),
\* then the body up to its return or to its first pause
Enter(t, c) ==
    /\ ~halted
    /\ t \in active
    /\ pc[t] = "idle"
    /\ lock_free(Mem, call_pf(t, c))
    /\ Apply(t, c, entry_start(lock_acquire(Mem, call_pf(t, c), t), t, c))

Call(op, pf, page, n, size, ptr) ==
    [op |-> op, pf |-> pf, page |-> page, n |-> n, size |-> size, ptr |-> ptr]

GetKernelPages(t) ==
    \E n \in 1..MaxPgCnt : Enter(t, Call("get_kernel_pages", PF_KERNEL, 0, n, 0, NULL))

GetUserPages(t) ==
    /\ has_pgdir(t)
    /\ \E n \in 1..MaxPgCnt : Enter(t, Call("get_user_pages", PF_USER, 0, n, 0, NULL))

GetAPage(t) ==
    \E pf \in Domains : \E page \in 0..(NVPages(pf) - 1) :
        Enter(t, Call("get_a_page", pf, page, 1, 0, NULL))

GetAPageWithout(t) ==
    \E pf \in Domains : \E page \in 0..(NVPages(pf) - 1) :
        /\ pf = PF_USER => has_pgdir(t)
        /\ Enter(t, Call("get_a_page_without_opvaddrbitmap", pf, page, 1, 0, NULL))

\* sys_malloc(size): a size out of range returns NULL before the lock is
\* touched
SysMallocOf(t, size) ==
    IF size_in_range(domain_of(t), size)
    THEN Enter(t, Call("sys_malloc", domain_of(t), 0, 0, size, NULL))
    ELSE /\ ~halted
         /\ t \in active
         /\ pc[t] = "idle"
         /\ UNCHANGED <<pool, vaddr, pde, pte, arena, free_list, pc, call, loc,
                        held, forked, leak>>

SysMalloc(t) == \E size \in sizes[domain_of(t)] : SysMallocOf(t, size)

SysFree(t) ==
    \E ptr \in LivePtrs(Mem, domain_of(t)) :
        Enter(t, Call("sys_free", domain_of(t), 0, 0, 0, ptr))

\* mfree_page called directly on pages a page-level allocator returned; it
\* takes no lock itself
MfreePage(t) ==
    \E pf \in Domains : \E base \in held[pf] : \E n \in 1..MaxPgCnt :
        /\ pf = PF_USER => has_pgdir(t)
        /\ base..(base + n - 1) \subseteq held[pf]
        /\ ~halted
        /\ t \in active
        /\ pc[t] = "idle"
        /\ Apply(t, Call("mfree_page", pf, base, n, 0, NULL), Job(Mem, "nomap", base, n, 0, 0, -1))

\* the thread resumes inside page_table_add: bitmap_set of the scanned bit,
\* the PDE, the PTE, and on to its return or its next pause
PtInstall(t) ==
    /\ ~halted
    /\ pc[t] = "ptalloc"
    /\ Apply(t, call[t], map_resume(Mem, call_pf(t, call[t]), loc[t]))

\* a call that counts against a budget of n calls
CountedTo(n) ==
    /\ ncalls < n
    /\ ncalls' = ncalls + 1
    /\ UNCHANGED <<active, sizes, boot, live>>

\* a call that counts against the budget of MaxCalls calls
Counted == CountedTo(MaxCalls)

\* a step that is not bounded by the budget
Uncounted == UNCHANGED <<active, sizes, ncalls, boot, live>>

\* every entry point called by every thread, MaxCalls calls in all
Next ==
    \E t \in Threads :
        \/ Counted /\ GetKernelPages(t)
        \/ Counted /\ GetUserPages(t)
        \/ Counted /\ GetAPage(t)
        \/ Counted /\ GetAPageWithout(t)
        \/ Counted /\ SysMalloc(t)
        \/ Counted /\ SysFree(t)
        \/ Counted /\ MfreePage(t)
        \/ Uncounted /\ PtInstall(t)

Spec == Init /\ [][Next]_vars

\* ------------------------------------------------------------- heap runs
\* One thread calls sys_malloc and sys_free without bound, from a state in
\* which earlier get_kernel_pages calls have taken some kernel frames.
InitHeap ==
    /\ InitThreads
    /\ \E t \in MainThreads : active = {t}
    /\ sizes = [pf \in Domains |-> Sizes(pf)]
    /\ \E k \in 0..KernelFrames :
          LET r == IF k = 0 THEN Done(FreshMem, NULL, "ret", {}, {}, {})
                   ELSE run_call(FreshMem, "k1",
                                 Call("get_kernel_pages", PF_KERNEL, 0, k, 0, NULL))
          IN /\ IsMem(r.m)
             /\ held = [pf \in Domains |-> IF pf = PF_KERNEL THEN r.got ELSE {}]

NextHeap ==
    \E t \in Threads :
        \/ Uncounted /\ SysMalloc(t)
        \/ Uncounted /\ SysFree(t)
        \/ Uncounted /\ PtInstall(t)

SpecHeap == InitHeap /\ [][NextHeap]_vars

\* --------------------------------------------------------- request sizes
\* One thread calls sys_malloc with one request size, any size up to MaxReq
\* and the sizes around a page and around pool_size, keeping at most MaxLive
\* blocks at a time, and frees them.
SizeInputs(pf) ==
    (0..MaxReq) \cup {PG_SIZE - SIZEOF_ARENA, PG_SIZE - SIZEOF_ARENA + 1,
                      pool_size(pf) - 1, pool_size(pf), pool_size(pf) + 1}

InitSize ==
    /\ InitMem
    /\ InitThreads
    /\ held = [pf \in Domains |-> {}]
    /\ \E t \in MainThreads : \E s \in SizeInputs(domain_of(t)) :
          /\ active = {t}
          /\ sizes = [pf \in Domains |-> {s}]

NextSize ==
    \E t \in Threads :
        \/ /\ Counted
           /\ Cardinality(LivePtrs(Mem, domain_of(t))) < MaxLive
           /\ SysMalloc(t)
        \/ Counted /\ SysFree(t)
        \/ Uncounted /\ PtInstall(t)

SpecSize == InitSize /\ [][NextSize]_vars

\* ------------------------------------------------------ locks on return
\* C1: whenever get_kernel_pages, get_user_pages, get_a_page,
\* get_a_page_without_opvaddrbitmap, sys_malloc or sys_free has returned, on
\* a success path or a failure path, the calling thread holds no pool mutex:
\* a thread that is not inside a call owns neither lock.
C1_LocksReleasedOnReturn ==
    \A t \in Threads :
        pc[t] = "idle" => \A pf \in Domains : pool[pf].lock # t

\* ------------------------------------------- virtual bits and page tables
\* C3: between calls, after any calls of the allocation entry points, failing
\* ones included, a page's bit in its virtual bitmap is 1 exactly when its
\* PTE is present, the pages get_a_page_without_opvaddrbitmap mapped aside.
C3_VbitIffPresent ==
    quiet =>
        \A pf \in Domains : \A idx \in 0..(NVPages(pf) - 1) :
            idx \notin forked[pf] => ((vaddr[pf][idx] = 1) <=> pte[pf][idx].p)

\* the present PTEs and PDEs whose frame is the physical address frame
MappingsTo(frame) ==
    {<<pf, idx>> \in Domains \X (0..(KernelFrames + UserVPages)) :
        /\ idx < NVPages(pf)
        /\ pte[pf][idx].p
        /\ pte[pf][idx].frame = frame}
    \cup {<<"pde", x>> : x \in {y \in UserPDEs : pde[y].p /\ pde[y].frame = frame}}

\* C4: between calls every frame of either pool is free in its bitmap and
\* the target of no present entry, or allocated and the target of exactly
\* one present entry, page-table frames (targets of a PDE) included.
C4_FrameFreeOrMappedOnce ==
    quiet =>
        \A pf \in Domains : \A bit \in 0..(NFrames(pf) - 1) :
            LET n == Cardinality(MappingsTo(phy_addr_start(pf) + bit * PG_SIZE))
            IN IF pool[pf].pool_bitmap[bit] = 0 THEN n = 0 ELSE n = 1

\* --------------------------------------------------- bitmaps under locks
\* thread t, which was inside page_table_add's palloc, takes the step
Resumes(t) == pc[t] = "ptalloc" /\ (pc'[t] # "ptalloc" \/ loc'[t] # loc[t])

\* C5: a pool's bitmap is only modified by a thread that holds that pool's
\* mutex: a thread that resumes inside an entry point and changes a pool's
\* bitmap owns that pool's lock (an entry point run in one step takes the
\* lock of its own pool in that step).
C5_BitmapOnlyUnderLock ==
    [][\A t \in Threads : \A pf \in Domains :
          (Resumes(t) /\ pool'[pf].pool_bitmap # pool[pf].pool_bitmap)
              => pool[pf].lock = t]_vars

\* ------------------------------------------------------------ exhaustion
\* the page-level allocation calls thread t can make
PageCalls(t) ==
    {Call(IF has_pgdir(t) THEN "get_user_pages" ELSE "get_kernel_pages",
          domain_of(t), 0, n, 0, NULL) : n \in 1..MaxPgCnt}

NoFreeFrame(pf) == \A bit \in 0..(NFrames(pf) - 1) : pool[pf].pool_bitmap[bit] = 1

\* C10: exhaustion is a null return and never a mapping of a frame palloc
\* did not allocate: no present PDE or PTE holds the frame address 0 that a
\* failed palloc returns, and with no free frame in its pool a page-level
\* allocation returns null without an assertion.
C10_ExhaustionIsNull ==
    /\ \A x \in UserPDEs : pde[x].p => pde[x].frame # 0
    /\ \A pf \in Domains : \A idx \in 0..(NVPages(pf) - 1) :
          pte[pf][idx].p => pte[pf][idx].frame # 0
    /\ quiet =>
          \A t \in Threads : \A c \in PageCalls(t) :
              (lock_free(Mem, domain_of(t)) /\ NoFreeFrame(domain_of(t)))
                  => LET r == run_call(Mem, t, c)
                     IN r.ret = NULL /\ r.st # "halt"

\* ------------------------------------------------------------ round trip
\* thread t can call sys_malloc(size) now and the call returns a block
Allocates(t, size) ==
    /\ pc[t] = "idle"
    /\ t \in active
    /\ size_in_range(domain_of(t), size)
    /\ lock_free(Mem, domain_of(t))
    /\ run_call(Mem, t, Call("sys_malloc", domain_of(t), 0, 0, size, NULL)).ret # NULL

\* the memory after sys_malloc(size) and sys_free of the block it returned
RoundTrip(t, size) ==
    LET r == run_call(Mem, t, Call("sys_malloc", domain_of(t), 0, 0, size, NULL))
    IN run_call(r.m, t, Call("sys_free", domain_of(t), 0, 0, 0, r.ret)).m

\* C2 as stated: sys_free of the block a successful sys_malloc(s) returned
\* leaves both physical bitmaps, the virtual bitmap, every free_list (members
\* and order) and every arena's cnt as they were before the sys_malloc.
C2_RoundTripRestoresAll ==
    \A t \in Threads : \A size \in sizes[domain_of(t)] :
        Allocates(t, size) =>
            LET m2 == RoundTrip(t, size)
            IN /\ \A pf \in Domains : m2.pool[pf].pool_bitmap = pool[pf].pool_bitmap
               /\ m2.vaddr = vaddr
               /\ m2.free_list = free_list
               /\ m2.arena = arena

\* a list with its head moved to its tail
Rotated(l) == IF l = <<>> THEN l ELSE Tail(l) \o <<Head(l)>>

\* the page directory entries present in m2 that are not present now
NewPDEs(m2) == {x \in UserPDEs : m2.pde[x].p /\ ~pde[x].p /\ m2.pde[x].frame # 0}

SetBits(btmp) == {i \in DOMAIN btmp : btmp[i] = 1}

\* C2 amended: the round trip restores the virtual bitmap, the bitmap of the
\* caller's own pool and every arena's cnt; a free_list a block was taken
\* from keeps its members with its head moved to the tail, every other
\* free_list is unchanged; the kernel bitmap keeps every bit it had and gains
\* one bit for each page table the sys_malloc had to create.
C2_RoundTripAmended ==
    \A t \in Threads : \A size \in sizes[domain_of(t)] :
        Allocates(t, size) =>
            LET pf == domain_of(t)
                m2 == RoundTrip(t, size)
            IN /\ m2.vaddr = vaddr
               /\ m2.arena = arena
               /\ m2.pool[pf].pool_bitmap = pool[pf].pool_bitmap
               /\ SetBits(pool[PF_KERNEL].pool_bitmap)
                      \subseteq SetBits(m2.pool[PF_KERNEL].pool_bitmap)
               /\ Cardinality(SetBits(m2.pool[PF_KERNEL].pool_bitmap))
                      = Cardinality(SetBits(pool[PF_KERNEL].pool_bitmap))
                        + Cardinality(NewPDEs(m2))
               /\ \A q \in Domains : \A d \in 0..(DESC_CNT - 1) :
                      m2.free_list[q][d] =
                          IF q = pf /\ ~is_large(size) /\ d = desc_of(size)
                          THEN Rotated(free_list[q][d]) ELSE free_list[q][d]

\* a user free_list whose head was moved behind a later block, under a page
\* table that sys_malloc created
C2_Witness ==
    /\ quiet
    /\ \E x \in UserPDEs : pde[x].p /\ pde[x].frame # 0
    /\ \E d \in 0..(DESC_CNT - 1) :
          LET l == free_list[PF_USER][d]
          IN Len(l) >= 2 /\ l[Len(l)].page = l[1].page /\ l[Len(l)].off < l[1].off

\* ------------------------------------------------------- arena accounting
\* C6: between calls, every live slab arena's cnt is the number of its blocks
\* on its descriptor's free_list, and 0 <= cnt < blocks_per_arena.
C6_CntMatchesFreeList ==
    quiet =>
        \A pf \in Domains : \A a \in arena_of_slab(Mem, pf) :
            LET hdr == arena[pf][a]
                l == free_list[pf][hdr.desc]
            IN /\ hdr.cnt = Cardinality({i \in DOMAIN l : block2arena(l[i]) = a})
               /\ list_elems(l) \subseteq
                      UNION {{arena2block(b, hdr.desc, i) :
                                 i \in 0..(blocks_per_arena(hdr.desc) - 1)} :
                             b \in arena_of_slab(Mem, pf)}
               /\ 0 <= hdr.cnt
               /\ hdr.cnt < blocks_per_arena(hdr.desc)

\* an arena with a block in use whose first block was freed after a later one
C6_Witness ==
    /\ quiet
    /\ \E pf \in Domains : \E a \in arena_of_slab(Mem, pf) :
          LET hdr == arena[pf][a]
              l == free_list[pf][hdr.desc]
          IN /\ hdr.cnt >= 1
             /\ hdr.cnt < blocks_per_arena(hdr.desc) - 1
             /\ l[Len(l)] = arena2block(a, hdr.desc, 0)

\* C7: after successful sys_malloc calls and sys_free of every pointer they
\* returned, the domain has no slab arena, its free_lists are empty, and every
\* page the heap used has its virtual bit 0, its PTE not present and its
\* frame's bit 0: the pages and frames still taken are those the page-level
\* allocators hold and the page tables.
C7_AllFreedReleasesAll ==
    quiet =>
        \A pf \in Domains :
            (LivePtrs(Mem, pf) = {} /\ leak[pf] = {}) =>
                /\ arena_of_slab(Mem, pf) = {}
                /\ \A d \in 0..(DESC_CNT - 1) : free_list[pf][d] = <<>>
                /\ \A idx \in 0..(NVPages(pf) - 1) :
                      idx \notin held[pf] => vaddr[pf][idx] = 0 /\ ~pte[pf][idx].p
                /\ \A bit \in 0..(NFrames(pf) - 1) :
                      pool[pf].pool_bitmap[bit] = 1 =>
                          \E e \in MappingsTo(phy_addr_start(pf) + bit * PG_SIZE) :
                              e[1] = "pde" \/ e[2] \in held[pf]

\* every pointer is freed, and a page the heap had mapped is unmapped again
C7_Witness ==
    /\ quiet
    /\ \E pf \in Domains :
          /\ LivePtrs(Mem, pf) = {}
          /\ leak[pf] = {}
          /\ \E idx \in 0..(NVPages(pf) - 1) :
                idx \notin held[pf] /\ pte[pf][idx].frame # 0 /\ ~pte[pf][idx].p

\* --------------------------------------------------------- size dispatch
\* the seven block sizes of the descriptors, smallest first
BlockSizes == <<16, 32, 64, 128, 256, 512, 1024>>

\* the outcome of sys_malloc(size) called by thread t now
Malloc(t, size) == run_call(Mem, t, Call("sys_malloc", domain_of(t), 0, 0, size, NULL))

\* C8: sys_malloc(size) returns null without taking the mutex and without
\* changing anything when size is 0 or at least pool_size; it takes the large
\* path exactly when size > 1024; and for 1 <= size <= 1024 it serves the
\* request from the descriptor of the smallest block size that is >= size, a
\* size equal to a block size belonging to that block size.
C8_SizeDispatch ==
    \A t \in active : \A size \in sizes[domain_of(t)] :
        LET pf == domain_of(t)
            r == Malloc(t, size)
            hdr == r.m.arena[pf][r.ret.page]
        IN /\ (size = 0 \/ size >= pool_size(pf)) => r.ret = NULL /\ r.m = Mem
           /\ (pc[t] = "idle" /\ lock_free(Mem, pf) /\ size > 1024 /\ size < pool_size(pf)) =>
                 /\ r.m.free_list = free_list
                 /\ \/ r.ret = NULL /\ r.m.arena = arena
                    \/ /\ r.ret # NULL
                       /\ r.ret.off = SIZEOF_ARENA
                       /\ hdr.large
                       /\ hdr.desc = -1
                       /\ (hdr.cnt - 1) * PG_SIZE < size + SIZEOF_ARENA
                       /\ size + SIZEOF_ARENA <= hdr.cnt * PG_SIZE
           /\ (pc[t] = "idle" /\ lock_free(Mem, pf) /\ size >= 1 /\ size <= 1024
                 /\ size < pool_size(pf)) =>
                 \E k \in 1..Len(BlockSizes) :
                     /\ size <= BlockSizes[k]
                     /\ k > 1 => size > BlockSizes[k - 1]
                     /\ \A d \in 0..(DESC_CNT - 1) :
                           d # k - 1 => r.m.free_list[pf][d] = free_list[pf][d]
                     /\ \/ r.ret = NULL /\ r.m.arena = arena
                        \/ /\ r.ret # NULL
                           /\ ~hdr.large
                           /\ hdr.desc = k - 1
                           /\ block_size(hdr.desc) = BlockSizes[k]
                           /\ (r.ret.off - SIZEOF_ARENA) % BlockSizes[k] = 0
                           /\ r.ret.off + BlockSizes[k] <= PG_SIZE
                           /\ r.ret \notin list_elems(r.m.free_list[pf][k - 1])

\* a request of exactly 1024 bytes was served from the 1024-byte descriptor
C8_Witness ==
    /\ quiet
    /\ \E pf \in Domains :
          /\ sizes[pf] = {1024}
          /\ \E a \in arena_of_slab(Mem, pf) :
                arena[pf][a].desc = 6 /\ arena[pf][a].cnt < blocks_per_arena(6)

\* ------------------------------------------------------------- alignment
\* the remainder of the virtual address of ptr in domain pf divided by k
AddrMod(pf, ptr, k) ==
    (((vaddr_start_vpn(pf) + ptr.page) % k) * (PG_SIZE % k) + ptr.off) % k

\* the blocks of the live slab arenas of domain pf, each with its block size
SlabBlocks(pf) ==
    UNION {{<<arena2block(a, arena[pf][a].desc, i), block_size(arena[pf][a].desc)>> :
               i \in 0..(blocks_per_arena(arena[pf][a].desc) - 1)} :
           a \in arena_of_slab(Mem, pf)}

\* C9 as stated: the pointer a slab-path sys_malloc returns is a multiple of
\* the block size of the descriptor it came from, at every block index.
C9_BlockAligned ==
    \A t \in active : \A size \in sizes[domain_of(t)] :
        /\ (Allocates(t, size) /\ ~is_large(size)) =>
              AddrMod(domain_of(t), Malloc(t, size).ret, block_size(desc_of(size))) = 0
        /\ \A e \in SlabBlocks(domain_of(t)) : AddrMod(domain_of(t), e[1], e[2]) = 0

\* C9 amended: the pointer is the page-aligned arena base plus the 12 bytes of
\* struct arena plus a multiple of the block size: its remainder modulo the
\* block size is 12 at every block index, so it is a multiple of 4 only.
C9_BlockOffsetByHeader ==
    \A t \in active : \A size \in sizes[domain_of(t)] :
        /\ (Allocates(t, size) /\ ~is_large(size)) =>
              LET ret == Malloc(t, size).ret
              IN /\ AddrMod(domain_of(t), ret, block_size(desc_of(size))) = 12
                 /\ AddrMod(domain_of(t), ret, 4) = 0
        /\ \A e \in SlabBlocks(domain_of(t)) :
              AddrMod(domain_of(t), e[1], e[2]) = 12 /\ AddrMod(domain_of(t), e[1], 4) = 0

\* two blocks of one arena are handed out, the second at block index 1
C9_Witness ==
    /\ quiet
    /\ \E pf \in Domains : \E a \in arena_of_slab(Mem, pf) :
          /\ arena[pf][a].cnt = blocks_per_arena(arena[pf][a].desc) - 2
          /\ arena2block(a, arena[pf][a].desc, 1) \in LivePtrs(Mem, pf)

\* ------------------------------------------------------------- waiting
\* The entry points with lock_acquire as a step of its own: a thread that
\* has called an entry point waits until the pool's lock is free, then runs
\* the body.  The scheduler is fair: a thread that can take the lock, or can
\* go on inside page_table_add, eventually does.
LockCalls(t) ==
    {Call("get_kernel_pages", PF_KERNEL, 0, n, 0, NULL) : n \in 1..MaxPgCnt}
    \cup {Call("get_user_pages", PF_USER, 0, n, 0, NULL) :
             n \in {k \in 1..MaxPgCnt : has_pgdir(t)}}
    \cup {Call("get_a_page", domain_of(t), page, 1, 0, NULL) :
             page \in 0..(NVPages(domain_of(t)) - 1)}
    \cup {Call("get_a_page_without_opvaddrbitmap", domain_of(t), page, 1, 0, NULL) :
             page \in 0..(NVPages(domain_of(t)) - 1)}
    \cup {Call("sys_malloc", domain_of(t), 0, 0, size, NULL) :
             size \in {z \in sizes[domain_of(t)] : size_in_range(domain_of(t), z)}}
    \cup {Call("sys_free", domain_of(t), 0, 0, 0, ptr) : ptr \in LivePtrs(Mem, domain_of(t))}

\* thread t calls an entry point and reaches its lock_acquire
Begin(t) ==
    /\ ~halted
    /\ t \in active
    /\ pc[t] = "idle"
    /\ \E c \in LockCalls(t) :
          /\ pc' = [pc EXCEPT ![t] = "wait"]
          /\ call' = [call EXCEPT ![t] = c]
    /\ UNCHANGED <<pool, vaddr, pde, pte, arena, free_list, loc, held, forked, leak>>

\* lock_acquire returns: the lock is free and the thread takes it
Take(t) ==
    /\ ~halted
    /\ pc[t] = "wait"
    /\ lock_free(Mem, call_pf(t, call[t]))
    /\ pool' = [pool EXCEPT ![call_pf(t, call[t])].lock = t]
    /\ pc' = [pc EXCEPT ![t] = "locked"]
    /\ UNCHANGED <<vaddr, pde, pte, arena, free_list, call, loc, held, forked, leak>>

\* the body of the entry point under the lock, up to its return or to its
\* first pause
Body(t) ==
    /\ ~halted
    /\ pc[t] = "locked"
    /\ Apply(t, call[t], entry_start(Mem, t, call[t]))

InitLive ==
    /\ InitMem
    /\ InitThreads
    /\ held = [pf \in Domains |-> {}]
    /\ active = MainThreads
    /\ sizes = [pf \in Domains |-> {SLAB_MAX}]

NextLive ==
    \E t \in Threads :
        \/ CountedTo(MaxWaits) /\ Begin(t)
        \/ Uncounted /\ Take(t)
        \/ Uncounted /\ Body(t)
        \/ Uncounted /\ PtInstall(t)

\* Fair scheduling: a thread that can take the lock does; a thread that
\* holds the lock runs its body; a thread inside page_table_add goes on.  The
\* step Body(t) is enabled exactly when pc[t] = "locked" and nothing has
\* halted, and it leaves that state, so weak fairness of Body(t) is the
\* formula []<>(pc[t] # "locked" \/ halted); likewise for PtInstall(t).
FairLive ==
    \A t \in Threads :
        /\ WF_vars(Uncounted /\ Take(t))
        /\ []<>(pc[t] # "locked" \/ halted)
        /\ []<>(pc[t] # "ptalloc" \/ halted)

SpecLive == InitLive /\ [][NextLive]_vars /\ FairLive

\* C11: under fair scheduling every call of an entry point runs to its
\* return: a thread that waits for a pool's lock eventually has it and
\* leaves the call (unless an assertion has stopped the kernel).
C11_EveryCallReturns ==
    \A t \in Threads : (pc[t] = "wait") ~> (pc[t] = "idle" \/ halted)

\* ------------------------------------------------------------ get_a_page
\* the caller's context matches the domain: a kernel thread asks for the
\* kernel domain or a user process for the user domain
SameDomain(t, pf) == (has_pgdir(t) /\ pf = PF_USER) \/ (~has_pgdir(t) /\ pf = PF_KERNEL)

\* get_a_page(pf, page) has what it needs: the pool's lock, a free frame in
\* the pool, an unmapped page and, for a missing page table, a kernel frame
CanMapAt(pf, page) ==
    /\ lock_free(Mem, pf)
    /\ ~NoFreeFrame(pf)
    /\ ~pte[pf][page].p
    /\ (pde_present(Mem, pf, page) \/ ~NoFreeFrame(PF_KERNEL))

\* C12: get_a_page(pf, v) sets the virtual bit of the page, maps a frame and
\* returns v exactly when the caller's context matches the domain, for every
\* page of the virtual space, the first included; a cross-domain call halts.
C12_GetAPageByDomain ==
    quiet =>
        \A t \in Threads : \A pf \in Domains : \A page \in 0..(NVPages(pf) - 1) :
            CanMapAt(pf, page) =>
                LET r == run_call(Mem, t, Call("get_a_page", pf, page, 1, 0, NULL))
                IN IF SameDomain(t, pf)
                   THEN /\ r.ret = Ptr(page, 0)
                        /\ r.m.vaddr[pf][page] = 1
                        /\ r.m.pte[pf][page].p
                   ELSE r.st = "halt"

\* ----------------------------------------------------------------- boot
\* mem_init on machines of different RAM sizes: the small ones frame by
\* frame, 32 MiB, the sizes around the 65536 frames a uint16_t counts, and
\* the largest below 2 GiB.
BootFrames ==
    (1..MaxBootFrames)
    \cup {(RAM_32M - used_mem) \div PG_SIZE}
    \cup {UINT16 - 1, UINT16, UINT16 + 1, UINT16 + 7681, 8 * UINT16 - 513}

BootMems == {used_mem + f * PG_SIZE : f \in BootFrames}

InitBoot ==
    /\ InitMem
    /\ InitIdle
    /\ held = [pf \in Domains |-> {}]
    /\ active = {}
    /\ sizes = [pf \in Domains |-> {}]
    /\ \E all_mem \in BootMems :
          boot = [all_mem |-> all_mem, st |-> "off", r |-> mem_pool_init(used_mem)]

\* mem_init: mem_pool_init on the RAM size the loader left
MemInit ==
    /\ boot.st = "off"
    /\ boot' = [boot EXCEPT !.st = "done", !.r = mem_pool_init(boot.all_mem)]
    /\ UNCHANGED <<pool, vaddr, pde, pte, arena, free_list, pc, call, loc, held, forked,
                   leak, active, sizes, ncalls, live>>

NextBoot == MemInit

SpecBoot == InitBoot /\ [][NextBoot]_vars

\* the frames left above the low 2 MiB on a machine of all_mem bytes
FramesOf(all_mem) == (all_mem - used_mem) \div PG_SIZE

\* C13: for every RAM size, mem_init puts the kernel pool at 0x00200000 and
\* the user pool right behind it, and splits the F remaining frames so that
\* the two sizes add up to F * 4096, the kernel pool getting ceil(F/2)
\* frames and the user pool floor(F/2); for 32 MiB the kernel pool starts at
\* 0x00200000, the user pool at 0x01100000 and both have 0x00F00000 bytes.
C13_SplitInHalves ==
    boot.st = "done" =>
        LET F == FramesOf(boot.all_mem)
            k == boot.r.kernel_pool
            u == boot.r.user_pool
        IN /\ k.phy_addr_start = 2 * LOW_MEM
           /\ u.phy_addr_start = k.phy_addr_start + k.pool_size
           /\ k.pool_size + u.pool_size = F * PG_SIZE
           /\ k.pool_size = ((F + 1) \div 2) * PG_SIZE
           /\ u.pool_size = (F \div 2) * PG_SIZE
           /\ boot.all_mem = RAM_32M =>
                 /\ u.phy_addr_start = 17 * LOW_MEM
                 /\ k.pool_size = 15 * LOW_MEM
                 /\ u.pool_size = 15 * LOW_MEM

\* ------------------------------------------------------------ no rollback
\* the frames of pool pf that are free in memory m
FreeFrames(m, pf) == {bit \in 0..(NFrames(pf) - 1) : m.pool[pf].pool_bitmap[bit] = 0}

\* the calls of thread t that reach malloc_page, each with its page count
MapCalls(t) ==
    {<<Call("get_kernel_pages", PF_KERNEL, 0, n, 0, NULL), n>> : n \in 1..MaxPgCnt}
    \cup (IF has_pgdir(t)
          THEN {<<Call("get_user_pages", PF_USER, 0, n, 0, NULL), n>> : n \in 1..MaxPgCnt}
          ELSE {})
    \cup {<<Call("sys_malloc", domain_of(t), 0, 0, size, NULL), page_cnt_of(size)>> :
             size \in {x \in sizes[domain_of(t)] :
                          size_in_range(domain_of(t), x) /\ is_large(x)}}
    \cup {<<Call("sys_malloc", domain_of(t), 0, 0, size, NULL), 1>> :
             size \in {x \in sizes[domain_of(t)] :
                          /\ size_in_range(domain_of(t), x)
                          /\ ~is_large(x)
                          /\ list_empty(free_list[domain_of(t)][desc_of(x)])}}

\* C14: a call that reaches malloc_page(domain, n) with the n virtual pages
\* available and only k < n frames free, so that its loop maps k pages and
\* then finds no frame, returns NULL with the n virtual bits
\* set, the k frames allocated and mapped by the present PTEs of the first k
\* pages, and nothing given back.
C14_NoRollback ==
    quiet =>
        \A t \in Threads : \A cn \in MapCalls(t) :
            LET c == cn[1]
                n == cn[2]
                pf == call_pf(t, c)
                v == vaddr_get(Mem, pf, n)
                free == FreeFrames(Mem, pf)
                k == Cardinality(free)
                r == run_call(Mem, t, c)
                frame_of(i) == r.m.pte[pf][v.page + i].frame
            IN (/\ lock_free(Mem, pf)
                /\ n < 3840
                /\ v.page # -1
                /\ k < n
                /\ \A i \in 0..(k - 1) : ~pte[pf][v.page + i].p) =>
                  /\ r.st = "ret"
                  /\ r.ret = NULL
                  /\ r.lost = v.page..(v.page + n - 1)
                  /\ \A i \in 0..(n - 1) : r.m.vaddr[pf][v.page + i] = 1
                  /\ FreeFrames(r.m, pf) = {}
                  /\ \A i \in 0..(k - 1) : r.m.pte[pf][v.page + i].p
                  /\ {frame_of(i) : i \in 0..(k - 1)} =
                        {phy_addr_start(pf) + bit * PG_SIZE : bit \in free}

\* a call has failed part-way: some of the pages it reserved are mapped, some
\* are not, and all have their virtual bit set
C14_Witness ==
    /\ quiet
    /\ \E pf \in Domains : \E p1, p2 \in leak[pf] :
          /\ pte[pf][p1].p
          /\ ~pte[pf][p2].p
          /\ vaddr[pf][p1] = 1
          /\ vaddr[pf][p2] = 1
          /\ NoFreeFrame(pf)

\* ------------------------------------------------------------ mfree_page
\* get_a_page_without_opvaddrbitmap(pf, vaddr) for a vaddr in the kernel
\* space, page page of it, whatever pool pf names: the frame comes from pool
\* pf, the PTE is the one of vaddr.  The page tables of the kernel space are
\* all present.
get_a_page_at_kernel_vaddr(m, t, pf, page) ==
    LET r == palloc(lock_acquire(m, pf, t), pf)
    IN IF r.frame = 0 THEN [m |-> lock_release(r.m, pf), st |-> "ret", ret |-> NULL]
       ELSE LET a == pte_install(r.m, PF_KERNEL, page, r.frame)
            IN IF a.st = "halt" THEN [m |-> a.m, st |-> "halt", ret |-> NULL]
               ELSE [m |-> lock_release(a.m, pf), st |-> "ret", ret |-> Ptr(page, 0)]

\* thread t maps a page of the kernel space with a frame of the user pool
GetAPageUserFrame(t) ==
    \E page \in 0..(NVPages(PF_KERNEL) - 1) :
        /\ ~halted
        /\ t \in active
        /\ pc[t] = "idle"
        /\ lock_free(Mem, PF_USER)
        /\ LET r == get_a_page_at_kernel_vaddr(Mem, t, PF_USER, page)
           IN /\ SetMem(r.m)
              /\ pc' = [pc EXCEPT ![t] = IF r.st = "halt" THEN "halt" ELSE "idle"]
              /\ held' = [held EXCEPT ![PF_KERNEL] =
                             IF r.ret = NULL THEN @ ELSE @ \cup {page}]
              /\ forked' = [forked EXCEPT ![PF_KERNEL] =
                               IF r.ret = NULL THEN @ ELSE @ \cup {page}]
              /\ UNCHANGED <<call, loc, leak>>

\* Pages are mapped by get_kernel_pages, get_user_pages and
\* get_a_page_without_opvaddrbitmap and freed by mfree_page, MaxFreeCalls
\* calls in all.
NextFree ==
    \E t \in Threads :
        \/ CountedTo(MaxFreeCalls) /\ GetKernelPages(t)
        \/ CountedTo(MaxFreeCalls) /\ GetUserPages(t)
        \/ CountedTo(MaxFreeCalls) /\ GetAPageWithout(t)
        \/ CountedTo(MaxFreeCalls) /\ GetAPageUserFrame(t)
        \/ CountedTo(MaxFreeCalls) /\ MfreePage(t)
        \/ Uncounted /\ PtInstall(t)

SpecFree == Init /\ [][NextFree]_vars

\* the ranges of mapped pages: domain, first page, page count
MappedRanges ==
    {x \in Domains \X (0..(KernelFrames + UserVPages)) \X (1..MaxPgCnt) :
        /\ x[2] + x[3] <= NVPages(x[1])
        /\ \A i \in 0..(x[3] - 1) : pte[x[1]][x[2] + i].p}

\* the bit of the frame at physical address frame in its pool's bitmap
FrameBit(frame) == (frame - phy_addr_start(pool_of_frame(frame))) \div PG_SIZE

\* what C15 says of mfree_page(pf, base, n) from the current state
FreesExactly(pf, base, n) ==
    LET r == mfree_page(Mem, pf, base, n)
        pages == base..(base + n - 1)
        frames == {pte[pf][q].frame : q \in pages}
    IN /\ r.st = "ok"
       /\ \A q \in pages : ~r.m.pte[pf][q].p
       /\ \A f \in frames : r.m.pool[pool_of_frame(f)].pool_bitmap[FrameBit(f)] = 0
       /\ \A q \in pages : r.m.vaddr[pf][q] = 0
       /\ \A d \in Domains :
             /\ \A q \in 0..(NVPages(d) - 1) :
                   (d # pf \/ q \notin pages) =>
                       /\ r.m.pte[d][q] = pte[d][q]
                       /\ r.m.vaddr[d][q] = vaddr[d][q]
             /\ \A bit \in 0..(NFrames(d) - 1) :
                   (phy_addr_start(d) + bit * PG_SIZE) \notin frames =>
                       r.m.pool[d].pool_bitmap[bit] = pool[d].pool_bitmap[bit]

\* C15: mfree_page(domain, base, n) on n mapped pages leaves every PTE of
\* the range not present, the bit of each backing frame cleared in the
\* bitmap of the pool the frame came from, the n virtual bits of the domain
\* cleared, and every other bit and PTE as it was, whichever pools the
\* frames came from.
C15_FreeClearsAll ==
    quiet => \A x \in MappedRanges : FreesExactly(x[1], x[2], x[3])

\* the frames of the range all come from the pool of the first
OnePool(pf, base, n) ==
    \A i \in 0..(n - 1) :
        pool_of_frame(pte[pf][base + i].frame) = pool_of_frame(pte[pf][base].frame)

\* C15, amended: the same for n mapped pages whose frames all come from the
\* pool of the first frame, whether or not that is the pool of the domain;
\* with a frame from the other pool mfree_page stops in its assertion.
C15_FreeClearsOnePool ==
    quiet =>
        \A x \in MappedRanges :
            IF OnePool(x[1], x[2], x[3]) THEN FreesExactly(x[1], x[2], x[3])
            ELSE mfree_page(Mem, x[1], x[2], x[3]).st = "halt"

\* mfree_page has freed a page of the kernel space that a frame of the user
\* pool backed
C15_Witness ==
    /\ quiet
    /\ \E q \in 0..(NVPages(PF_KERNEL) - 1) :
          /\ pool_of_frame(pte[PF_KERNEL][q].frame) = PF_USER
          /\ ~pte[PF_KERNEL][q].p
          /\ vaddr[PF_KERNEL][q] = 0
          /\ q \notin held[PF_KERNEL]
          /\ pool[PF_USER].pool_bitmap[FrameBit(pte[PF_KERNEL][q].frame)] = 0

\* ------------------------------------------------------------- large path
\* ceil((size + sizeof(struct arena)) / 4096)
CeilPages(size) ==
    CHOOSE pages \in 1..(size \div PG_SIZE + 2) :
        /\ (pages - 1) * PG_SIZE < size + SIZEOF_ARENA
        /\ size + SIZEOF_ARENA <= pages * PG_SIZE

\* the pages of domain pf whose virtual bit is set in memory m
SetPages(m, pf) == {q \in 0..(NVPages(pf) - 1) : m.vaddr[pf][q] = 1}

\* the pages of domain pf whose PTE is present in memory m
PresentPages(m, pf) == {q \in 0..(NVPages(pf) - 1) : m.pte[pf][q].p}

\* C16: a successful sys_malloc(size) with 1024 < size < pool_size reserves
\* exactly ceil((size + 12) / 4096) contiguous virtual pages, writes the
\* header {desc none, cnt pages, large true} at their base and returns
\* base + 12; sys_free of that pointer frees exactly those pages: virtual
\* bits, mappings and frames are as before the sys_malloc.
C16_LargeRoundTrip ==
    quiet =>
        \A t \in active : \A size \in sizes[domain_of(t)] :
            LET pf == domain_of(t)
                r == Malloc(t, size)
                base == r.ret.page
                pages == CeilPages(size)
                f == run_call(r.m, t, Call("sys_free", pf, 0, 0, 0, r.ret))
            IN (lock_free(Mem, pf) /\ size > SLAB_MAX /\ size < pool_size(pf)
                /\ r.ret # NULL) =>
                  /\ r.ret = Ptr(base, SIZEOF_ARENA)
                  /\ SetPages(r.m, pf) \ SetPages(Mem, pf) = base..(base + pages - 1)
                  /\ SetPages(Mem, pf) \subseteq SetPages(r.m, pf)
                  /\ PresentPages(r.m, pf) \ PresentPages(Mem, pf) =
                        base..(base + pages - 1)
                  /\ r.m.arena[pf][base] = [desc |-> -1, large |-> TRUE, cnt |-> pages]
                  /\ f.st = "ret"
                  /\ SetPages(f.m, pf) = SetPages(Mem, pf)
                  /\ PresentPages(f.m, pf) = PresentPages(Mem, pf)
                  /\ FreeFrames(f.m, pf) = FreeFrames(Mem, pf)
                  /\ f.m.arena[pf] = arena[pf]
                  /\ f.m.free_list[pf] = free_list[pf]

\* a two-page block was handed out by sys_malloc and freed by sys_free
C16_Witness ==
    /\ quiet
    /\ ncalls >= 2
    /\ \E pf \in Domains :
          /\ \E size \in sizes[pf] : is_large(size) /\ CeilPages(size) = 2
          /\ SetPages(Mem, pf) = {}
          /\ PresentPages(Mem, pf) = {}
          /\ pte[pf][0].frame # 0
          /\ pte[pf][1].frame # 0

\* ------------------------------------------------------- live mappings
\* C17: page_table_add on a page whose PTE is present halts and leaves the
\* PTE as it was; and between the calls of get_kernel_pages, get_user_pages,
\* sys_malloc, get_a_page_without_opvaddrbitmap and the frees, no page that
\* the scan of the virtual bitmap would choose has a present PTE.
C17_ScanAvoidsLiveMappings ==
    /\ \A x \in MappedRanges :
          LET a == pte_install(Mem, x[1], x[2], phy_addr_start(x[1]))
          IN a.st = "halt" /\ a.m.pte = pte
    /\ quiet =>
          \A t \in Threads : \A cn \in MapCalls(t) :
              LET pf == call_pf(t, cn[1])
                  v == vaddr_get(Mem, pf, cn[2])
              IN v.page # -1 =>
                    \A i \in 0..(cn[2] - 1) : ~pte[pf][v.page + i].p

\* --------------------------------------------------------- bitmap sizes
\* C18: after mem_init the kernel physical bitmap has at least
\* kernel_pool.pool_size / 4096 bits, the user physical bitmap at least
\* user_pool.pool_size / 4096 bits, the kernel virtual bitmap as many bits as
\* the kernel pool has frames, and the three bitmaps lie one after the other
\* from MEM_BITMAP_BASE without overlapping.
C18_BitmapsCoverPools ==
    boot.st = "done" =>
        LET k == boot.r.kernel_pool
            u == boot.r.user_pool
            v == boot.r.kernel_vaddr
        IN /\ 8 * k.btmp_bytes_len >= k.pool_size \div PG_SIZE
           /\ 8 * u.btmp_bytes_len >= u.pool_size \div PG_SIZE
           /\ 8 * v.btmp_bytes_len = k.pool_size \div PG_SIZE
           /\ k.bits = 0
           /\ u.bits = k.bits + k.btmp_bytes_len
           /\ v.bits = u.bits + u.btmp_bytes_len

\* ------------------------------------------------------ page count range
\* request sizes at the ends of the range that passes sys_malloc's check
\* against pool_sz, and in its middle
EdgeSizes(pool_sz) ==
    {size \in {1, SLAB_MAX, SLAB_MAX + 1, pool_sz \div 2, pool_sz - PG_SIZE,
               pool_sz - SIZEOF_ARENA, pool_sz - 1} : in_range(size, pool_sz)}

\* C20: for the pool sizes mem_init produces, every size that passes the
\* range check of sys_malloc gives malloc_page a page count that passes its
\* assertion: the request does not end in a fatal assertion failure.
C20_PageCountPassesAssert ==
    boot.st = "done" =>
        \A pool_sz \in {boot.r.kernel_pool.pool_size, boot.r.user_pool.pool_size} :
            \A size \in EdgeSizes(pool_sz) :
                LET pg_cnt == IF is_large(size) THEN page_cnt_of(size) ELSE 1
                IN malloc_page(FreshMem, PF_KERNEL, pg_cnt).st # "halt"

\* ----------------------------------------------------------- shared heap
\* Two kernel threads call sys_malloc and sys_free on the kernel heap, each
\* waiting for kernel_pool.lock while the other holds it; no pointer is given
\* to sys_free twice.
ShareSizes == {SLAB_MAX \div 2, SLAB_MAX, SLAB_MAX + 1, PG_SIZE - SIZEOF_ARENA + 1}

\* the pointers some thread is about to free
BeingFreed == {call[t].ptr : t \in {u \in Threads : call[u].op = "sys_free"}}

HeapCalls(t) ==
    {Call("sys_malloc", domain_of(t), 0, 0, size, NULL) : size \in sizes[domain_of(t)]}
    \cup {Call("sys_free", domain_of(t), 0, 0, 0, b.ptr) :
             b \in {x \in live : x.pf = domain_of(t) /\ x.ptr \notin BeingFreed}}

\* thread t calls sys_malloc or sys_free and reaches its lock_acquire
BeginHeap(t) ==
    /\ ~halted
    /\ t \in active
    /\ pc[t] = "idle"
    /\ \E c \in HeapCalls(t) :
          /\ pc' = [pc EXCEPT ![t] = "wait"]
          /\ call' = [call EXCEPT ![t] = c]
    /\ UNCHANGED <<pool, vaddr, pde, pte, arena, free_list, loc, held, forked, leak>>

\* the call of thread t runs under the lock and returns; what sys_malloc
\* returns is live until it is passed to sys_free
BodyHeap(t) ==
    /\ Body(t)
    /\ LET c == call[t]
           j == entry_start(Mem, t, c)
           ret == IF j.st \in {"halt", "pause"} THEN NULL
                  ELSE entry_finish(j.m, t, c, j).ret
       IN live' = IF c.op = "sys_free" THEN {b \in live : b.ptr # c.ptr}
                  ELSE IF ret = NULL THEN live
                  ELSE live \cup {[pf |-> domain_of(t), ptr |-> ret,
                                   size |-> c.size, by |-> t]}

InitShare ==
    /\ InitMem
    /\ InitThreads
    /\ held = [pf \in Domains |-> {}]
    /\ active = KThreads
    /\ sizes = [pf \in Domains |-> ShareSizes]

NextShare ==
    \E t \in Threads :
        \/ Counted /\ BeginHeap(t)
        \/ Uncounted /\ Take(t)
        \/ UNCHANGED <<active, sizes, ncalls, boot>> /\ BodyHeap(t)

SpecShare == InitShare /\ [][NextShare]_vars

\* the bytes of a block, counted from the start of its domain's virtual space
ByteOf(ptr) == ptr.page * PG_SIZE + ptr.off

\* the number of bytes a live block gives its owner: the whole block of its
\* size class, or the size asked for on the large path
LenOf(b) ==
    IF b.size > SLAB_MAX THEN b.size
    ELSE block_size(CHOOSE d \in 0..(DESC_CNT - 1) :
                       /\ b.size <= block_size(d)
                       /\ \A e \in 0..(d - 1) : b.size > block_size(e))

\* the len1 bytes from lo1 and the len2 bytes from lo2 have a byte in common
Overlap(lo1, len1, lo2, len2) == lo1 < lo2 + len2 /\ lo2 < lo1 + len1

\* the live block b has a byte in common with the len bytes from lo
Touches(b, lo, len) == Overlap(ByteOf(b.ptr), LenOf(b), lo, len)

\* C19: with several threads of one domain calling sys_malloc and sys_free
\* in any interleaving, each pointer freed at most once, the live blocks are
\* pairwise disjoint, none is linked on a free_list, and none overlaps an
\* arena header.
C19_LiveBlocksDisjoint ==
    /\ \A b1 \in live : \A b2 \in live :
          (b1 # b2 /\ b1.pf = b2.pf) => ~Touches(b1, ByteOf(b2.ptr), LenOf(b2))
    /\ \A b \in live :
          /\ \A d \in 0..(DESC_CNT - 1) : \A i \in DOMAIN free_list[b.pf][d] :
                /\ free_list[b.pf][d][i] # b.ptr
                /\ ~Touches(b, ByteOf(free_list[b.pf][d][i]), block_size(d))
          /\ \A a \in arena_of_large(Mem, b.pf) \cup arena_of_slab(Mem, b.pf) :
                ~Touches(b, a * PG_SIZE, SIZEOF_ARENA)

\* both threads own a block of the same arena, one of them is inside
\* sys_malloc with the lock and the other waits for the lock in sys_free
C19_Witness ==
    /\ \E b1 \in live : \E b2 \in live :
          /\ b1.by = "k1"
          /\ b2.by = "k2"
          /\ b1.ptr.page = b2.ptr.page
    /\ \E t \in Threads : pc[t] = "locked" /\ call[t].op = "sys_malloc"
    /\ \E t \in Threads : pc[t] = "wait" /\ call[t].op = "sys_free"

=============================================================================
